---------------------------- MODULE Spec2Model ----------------------------
(***************************************************************************)
(* Model of devbox's shell bootstrap (package shell: Detect, buildInitFile,*)
(* writeHooks, ExecCommand) and of the exclude helper (package devbox).    *)
(*                                                                         *)
(* A Go string is modelled as a sequence of atoms.  An atom is a TLA+      *)
(* string standing either for one significant character ("/", ".", "-",    *)
(* " ", "\n", "\t", "#") or for a maximal run of other characters          *)
(* ("bash", "tmp", "Begin").  The empty Go string is the empty sequence.   *)
(***************************************************************************)
EXTENDS Integers, Sequences, FiniteSets, TLC

VARIABLES
    sh,     \* the *Shell returned by the last Detect (NilShell before it)
    fs,     \* regular files of the file system: path -> content
    dirs,   \* directories created by os.MkdirTemp
    last,   \* observation of the last ExecCommand call (NoCall if none)
    env,    \* the process environment: SHELL, ENV, HOME, PATH
    arg,    \* arguments of the function applied (SpecExclude, SpecDetect, SpecBuild)
    ret     \* its result

vars == <<sh, fs, dirs, last, env, arg, ret>>

----------------------------------------------------------------------------
(* Bounds *)

MaxDirs == 2        \* temporary directories one behaviour may create
MaxLen == 3         \* length of the slices given to exclude
MaxHookLen == 3     \* atoms of a hook script given to buildInitFile
MaxNativeLen == 3   \* atoms of the native init file given to buildInitFile
MaxHyphens == 2     \* leading hyphens put before a shell's base name

----------------------------------------------------------------------------
(* Strings *)

Empty == <<>>

Range(s) == {s[i] : i \in 1..Len(s)}

SeqsUpTo(S, n) == UNION {[1..k -> S] : k \in 0..n}

\* unicode.IsSpace, on the atoms used here
IsSpace(a) == a \in {" ", "\n", "\t"}

RECURSIVE TrimLeft(_)
TrimLeft(s) ==
    IF s # Empty /\ IsSpace(Head(s)) THEN TrimLeft(Tail(s)) ELSE s

RECURSIVE TrimRight(_)
TrimRight(s) ==
    IF s # Empty /\ IsSpace(s[Len(s)])
    THEN TrimRight(SubSeq(s, 1, Len(s) - 1))
    ELSE s

\* strings.TrimSpace / bytes.TrimSpace
TrimSpace(s) == TrimRight(TrimLeft(s))

----------------------------------------------------------------------------
(* path/filepath, Unix flavour *)

Sep == "/"

\* the components of p between separators, empty ones dropped
RECURSIVE Components(_, _, _)
Components(p, cur, acc) ==
    IF p = Empty
    THEN IF cur = Empty THEN acc ELSE Append(acc, cur)
    ELSE IF Head(p) = Sep
         THEN Components(Tail(p), Empty,
                         IF cur = Empty THEN acc ELSE Append(acc, cur))
         ELSE Components(Tail(p), Append(cur, Head(p)), acc)

Dot == <<".">>
DotDot == <<".", ".">>

\* Clean's treatment of "." and ".." elements
RECURSIVE Resolve(_, _, _)
Resolve(cs, rooted, out) ==
    IF cs = Empty THEN out
    ELSE LET c == Head(cs) IN
         IF c = Dot THEN Resolve(Tail(cs), rooted, out)
         ELSE IF c = DotDot
              THEN IF out # Empty /\ out[Len(out)] # DotDot
                   THEN Resolve(Tail(cs), rooted, SubSeq(out, 1, Len(out) - 1))
                   ELSE IF rooted
                        THEN Resolve(Tail(cs), rooted, out)
                        ELSE Resolve(Tail(cs), rooted, Append(out, c))
              ELSE Resolve(Tail(cs), rooted, Append(out, c))

RECURSIVE JoinSep(_)
JoinSep(cs) ==
    IF cs = Empty THEN Empty
    ELSE IF Len(cs) = 1 THEN Head(cs)
         ELSE Head(cs) \o <<Sep>> \o JoinSep(Tail(cs))

\* filepath.Clean
Clean(p) ==
    IF p = Empty THEN Dot
    ELSE LET rooted == Head(p) = Sep
             out == Resolve(Components(p, Empty, Empty), rooted, Empty)
         IN  IF rooted THEN <<Sep>> \o JoinSep(out)
             ELSE IF out = Empty THEN Dot ELSE JoinSep(out)

RECURSIVE StripTrailingSeps(_)
StripTrailingSeps(p) ==
    IF p # Empty /\ p[Len(p)] = Sep
    THEN StripTrailingSeps(SubSeq(p, 1, Len(p) - 1))
    ELSE p

\* index of the last separator of p, 0 if there is none
RECURSIVE LastSep(_, _)
LastSep(p, i) ==
    IF i = 0 THEN 0 ELSE IF p[i] = Sep THEN i ELSE LastSep(p, i - 1)

\* filepath.Base
Base(p) ==
    IF p = Empty THEN Dot
    ELSE LET q == StripTrailingSeps(p) IN
         IF q = Empty THEN <<Sep>>
         ELSE SubSeq(q, LastSep(q, Len(q)) + 1, Len(q))

\* filepath.Dir
Dir(p) == Clean(SubSeq(p, 1, LastSep(p, Len(p))))

\* filepath.Join of two elements
Join(a, b) ==
    IF a = Empty /\ b = Empty THEN Empty
    ELSE IF a = Empty THEN Clean(b)
         ELSE IF b = Empty THEN Clean(a)
              ELSE Clean(a \o <<Sep>> \o b)

----------------------------------------------------------------------------
(* package devbox: exclude *)

\* the map built by the first loop: the keys set to true
RECURSIVE ExcludedKeys(_, _)
ExcludedKeys(elems, excluded) ==
    IF elems = Empty THEN excluded
    ELSE ExcludedKeys(Tail(elems), excluded \cup {Head(elems)})

\* the second loop: append the elements that are not keys of the map
RECURSIVE FilterLoop(_, _, _)
FilterLoop(s, excluded, filtered) ==
    IF s = Empty THEN filtered
    ELSE FilterLoop(Tail(s), excluded,
                    IF Head(s) \notin excluded
                    THEN Append(filtered, Head(s))
                    ELSE filtered)

exclude_DropsDuplicates(s, elems) ==
    FilterLoop(s, ExcludedKeys(elems, {}) \cup
                  {s[i] : i \in {j \in 1..Len(s) : \E k \in 1..(j - 1) : s[k] = s[j]}},
               Empty)

exclude(s, elems) == FilterLoop(s, ExcludedKeys(elems, {}), Empty)


----------------------------------------------------------------------------
(* package shell: the Shell value and Detect *)

shUnknown == Empty
shBash == <<"bash">>
shZsh == <<"zsh">>
shKsh == <<"ksh">>
shPosix == <<"posix">>

\* the nil *Shell
NilShell == [nil |-> TRUE]

\* os.UserHomeDir: $HOME, an error when it is empty.  rcfilePath joins the
\* home directory and basename, and returns "" on that error.
rcfilePath(e, basename) ==
    IF e.HOME = Empty THEN Empty ELSE Join(e.HOME, basename)

\* the base name Detect classifies: a single leading hyphen dropped
LoginBase_StripsAllHyphens(base) ==
    LET RECURSIVE Strip(_)
        Strip(b) == IF b # Empty /\ Head(b) = "-" THEN Strip(Tail(b)) ELSE b
    IN  Strip(base)

LoginBase(base) == IF base[1] = "-" THEN Tail(base) ELSE base

\* Detect under the environment e = [SHELL, ENV, HOME, PATH]
Detect(e) ==
    IF e.SHELL = Empty
    THEN [err |-> TRUE, sh |-> NilShell]
    ELSE LET base == LoginBase(Base(e.SHELL))
             kind == CASE base = <<"bash">> -> <<shBash, rcfilePath(e, <<".", "bashrc">>)>>
                       [] base = <<"zsh">>  -> <<shZsh, rcfilePath(e, <<".", "zshrc">>)>>
                       [] base = <<"ksh">>  -> <<shKsh, rcfilePath(e, <<".", "kshrc">>)>>
                       [] base \in {<<"dash">>, <<"ash">>, <<"sh">>} ->
                            <<shPosix, IF e.ENV = Empty THEN <<".", "shinit">> ELSE e.ENV>>
                       [] OTHER -> <<shUnknown, Empty>>
         IN  [err |-> FALSE,
              sh  |-> [name |-> kind[1],
                       path |-> Clean(e.SHELL),
                       initFile |-> kind[2],
                       devboxInitFile |-> Empty,
                       PreInitHook |-> Empty,
                       PostInitHook |-> Empty]]

----------------------------------------------------------------------------
(* The file system seen through package os *)

\* the directory os.MkdirTemp("", ...) creates its directories in
TempDir == <<"/", "tmp">>

IsDir(F, p) == p \in F.dirs \/ p = TempDir \/ p = <<Sep>> \/ p = Dot

\* os.ReadFile
ReadFile(F, name) ==
    IF name # Empty /\ ~IsDir(F, Clean(name)) /\ Clean(name) \in DOMAIN F.fs
    THEN [err |-> FALSE, data |-> F.fs[Clean(name)]]
    ELSE [err |-> TRUE, data |-> Empty]

\* os.MkdirTemp("", "devbox"): o.mkdir = 0 is a failure, k > 0 the random
\* suffix of the name; a name already taken is never returned.
TempName(k) == TempDir \o <<Sep, "devbox" \o ToString(k)>>

MkdirTemp_Reuses(F, o) ==
    IF o.mkdir = 0
    THEN [err |-> TRUE, name |-> Empty, dirs |-> F.dirs]
    ELSE LET n == IF F.dirs = {} THEN TempName(o.mkdir) ELSE CHOOSE d \in F.dirs : TRUE
         IN  [err |-> FALSE, name |-> n, dirs |-> F.dirs \cup {n}]

MkdirTemp(F, o) ==
    IF o.mkdir = 0 \/ TempName(o.mkdir) \in F.dirs
    THEN [err |-> TRUE, name |-> Empty, dirs |-> F.dirs]
    ELSE [err |-> FALSE, name |-> TempName(o.mkdir),
          dirs |-> F.dirs \cup {TempName(o.mkdir)}]

\* the file system with name holding data
Put(fsys, name, data) ==
    [p \in DOMAIN fsys \cup {name} |-> IF p = name THEN data ELSE fsys[p]]

\* os.WriteFile(name, data, 0600): open with O_CREATE|O_TRUNC, then write.
\* o.write is "ok", "open" (the open fails) or "short" (the write fails after
\* o.short bytes); opening a directory for writing always fails.
WriteFile(F, name, data, o) ==
    IF IsDir(F, name) \/ o.write = "open"
    THEN [err |-> TRUE, fs |-> F.fs]
    ELSE IF o.write = "short" /\ o.short < Len(data)
         THEN [err |-> TRUE, fs |-> Put(F.fs, name, SubSeq(data, 1, o.short))]
         ELSE [err |-> FALSE, fs |-> Put(F.fs, name, data)]

----------------------------------------------------------------------------
(* buildInitFile *)

NL == "\n"

BeginPreMarker == <<"#", " ", "Begin", " ", "Devbox", " ", "Pre", "-", "init", " ", "Hook">>
EndPreMarker == <<"#", " ", "End", " ", "Devbox", " ", "Pre", "-", "init", " ", "Hook">>
EndPostMarker == <<"#", " ", "End", " ", "Devbox", " ", "Post", "-", "init", " ", "Hook">>

\* a nil []byte and a non-nil one
NilBytes == [nil |-> TRUE, b |-> Empty]
Bytes(b) == [nil |-> FALSE, b |-> b]

\* what the first buf.WriteString calls add for the pre-hook
PreSection(prehook) ==
    IF prehook # Empty
    THEN <<NL>> \o BeginPreMarker \o <<NL, NL>> \o prehook
         \o <<NL, NL>> \o EndPreMarker \o <<NL, NL>>
    ELSE Empty

\* what the last buf.WriteString calls add for the post-hook
PostSection_NoBlankLine(posthook) ==
    IF posthook # Empty
    THEN BeginPreMarker \o <<NL, NL>> \o posthook \o <<NL, NL>> \o EndPostMarker
    ELSE Empty

PostSection(posthook) ==
    IF posthook # Empty
    THEN <<NL, NL>> \o BeginPreMarker \o <<NL, NL>> \o posthook
         \o <<NL, NL>> \o EndPostMarker
    ELSE Empty

\* (s *Shell) buildInitFile, reading s.initFile in the file system F
buildInitFile(s, F) ==
    LET prehook == TrimSpace(s.PreInitHook)
        posthook == TrimSpace(s.PostInitHook)
    IN  IF prehook = Empty /\ posthook = Empty
        THEN [err |-> FALSE, out |-> NilBytes]
        ELSE LET rd == ReadFile(F, s.initFile) IN
             IF rd.err
             THEN [err |-> TRUE, out |-> NilBytes]
             ELSE LET b == TrimSpace(PreSection(prehook) \o TrimSpace(rd.data)
                                     \o PostSection(posthook))
                  IN  IF Len(b) = 0
                      THEN [err |-> FALSE, out |-> NilBytes]
                      ELSE [err |-> FALSE, out |-> Bytes(Append(b, NL))]

----------------------------------------------------------------------------
(* writeHooks and ExecCommand *)

ErrNone == "nil"
ErrRead == "read shell init file"
ErrMkdir == "create temp dir for shell init file"
ErrWrite == "write to shell init file"

\* (s *Shell) writeHooks in the file system F, the OS answering as o says
writeHooks_SetsFieldBeforeWrite(s, F, o) ==
    LET built == buildInitFile(s, F) IN
    IF built.err
    THEN [err |-> ErrRead, s |-> s, fs |-> F.fs, dirs |-> F.dirs,
          contents |-> built.out, tmp |-> Empty]
    ELSE LET mk == MkdirTemp(F, o) IN
         IF mk.err
         THEN [err |-> ErrMkdir, s |-> s, fs |-> F.fs, dirs |-> F.dirs,
               contents |-> built.out, tmp |-> Empty]
         ELSE LET devboxInitFile == Join(mk.name, Base(s.initFile))
                  wr == WriteFile([fs |-> F.fs, dirs |-> mk.dirs],
                                  devboxInitFile, built.out.b, o)
              IN  [err |-> IF wr.err THEN ErrWrite ELSE ErrNone,
                   s |-> [s EXCEPT !.devboxInitFile = devboxInitFile],
                   fs |-> wr.fs, dirs |-> mk.dirs,
                   contents |-> built.out, tmp |-> mk.name]

writeHooks(s, F, o) ==
    LET built == buildInitFile(s, F) IN
    IF built.err
    THEN [err |-> ErrRead, s |-> s, fs |-> F.fs, dirs |-> F.dirs,
          contents |-> built.out, tmp |-> Empty]
    ELSE LET mk == MkdirTemp(F, o) IN
         IF mk.err
         THEN [err |-> ErrMkdir, s |-> s, fs |-> F.fs, dirs |-> F.dirs,
               contents |-> built.out, tmp |-> Empty]
         ELSE LET devboxInitFile == Join(mk.name, Base(s.initFile))
                  wr == WriteFile([fs |-> F.fs, dirs |-> mk.dirs],
                                  devboxInitFile, built.out.b, o)
              IN  IF wr.err
                  THEN [err |-> ErrWrite, s |-> s, fs |-> wr.fs, dirs |-> mk.dirs,
                        contents |-> built.out, tmp |-> mk.name]
                  ELSE [err |-> ErrNone,
                        s |-> [s EXCEPT !.devboxInitFile = devboxInitFile],
                        fs |-> wr.fs, dirs |-> mk.dirs,
                        contents |-> built.out, tmp |-> mk.name]

\* the literal pieces of the fmt.Sprintf formats
Plain(s) == <<"exec ">> \o s.path

BashForm(s, PATH) ==
    <<"exec /usr/bin/env ORIGINAL_PATH=\"">> \o PATH \o <<"\" ">> \o s.path
    \o <<" --rcfile \"">> \o s.devboxInitFile \o <<"\"">>

ZshForm(s, PATH) ==
    <<"exec /usr/bin/env ORIGINAL_PATH=\"">> \o PATH \o <<"\" ZDOTDIR=\"">>
    \o Dir(s.devboxInitFile) \o <<"\" ">> \o s.path

EnvForm(s, PATH) ==
    <<"exec /usr/bin/env ORIGINAL_PATH=\"">> \o PATH \o <<"\" ENV=\"">>
    \o s.devboxInitFile \o <<"\" ">> \o s.path \o <<" ">>

\* the switch of ExecCommand on the shell's name
Command_ZdotdirIsFile(s, PATH) ==
    CASE s.name = shBash -> BashForm(s, PATH)
      [] s.name = shZsh -> <<"exec /usr/bin/env ORIGINAL_PATH=\"">> \o PATH
                           \o <<"\" ZDOTDIR=\"">> \o s.devboxInitFile
                           \o <<"\" ">> \o s.path
      [] s.name \in {shKsh, shPosix} -> EnvForm(s, PATH)
      [] OTHER -> Plain(s)

Command(s, PATH) ==
    CASE s.name = shBash -> BashForm(s, PATH)
      [] s.name = shZsh -> ZshForm(s, PATH)
      [] s.name \in {shKsh, shPosix} -> EnvForm(s, PATH)
      [] OTHER -> Plain(s)

\* the condition under which ExecCommand falls back to the plain form
Fallback_IgnoresErr(w) == w.s.devboxInitFile = Empty

Fallback(w) == w.err # ErrNone \/ w.s.devboxInitFile = Empty

\* (s *Shell) ExecCommand with $PATH = PATH: the command returned and the
\* effects of the call
ExecCommand(s, F, o, PATH) ==
    LET w == writeHooks(s, F, o) IN
    [cmd |-> IF Fallback(w) THEN Plain(w.s) ELSE Command(w.s, PATH),
     w |-> w]

----------------------------------------------------------------------------
(* Inputs of the calls *)

Home == <<"/", "home", "/", "u">>
Profile == Home \o <<"/", ".", "profile">>

Environ(shell, envvar, home, path) ==
    [SHELL |-> shell, ENV |-> envvar, HOME |-> home, PATH |-> path]

Bin == <<"/", "bin">>
UsrBin == <<"/", "usr", "/", "bin", ":", "/", "bin">>

\* the environments a bootstrap is run in
Envs ==
    { Environ(Empty, Empty, Home, Bin),
      Environ(<<"/", "bin", "/", "bash">>, Empty, Home, UsrBin),
      Environ(<<"-", "bash">>, Empty, Empty, Bin),
      Environ(<<"/", "usr", "/", "bin", "/", "zsh">>, Empty, Home, Bin),
      Environ(<<"/", "bin", "/", "zsh">>, Empty, Home, UsrBin),
      Environ(<<"/", "bin", "/", "/", "ksh">>, Empty, Home, UsrBin),
      Environ(<<"/", "bin", "/", "sh">>, Empty, Home, Bin),
      Environ(<<"/", "bin", "/", "dash">>, Profile, Home, UsrBin),
      Environ(<<"/", "bin", "/", "ash">>, DotDot, Home, Bin),
      Environ(<<"/", "usr", "/", "bin", "/", "fish">>, Empty, Home, Bin) }

\* hook scripts the caller sets
Hooks == {Empty, <<" ", NL>>, <<NL, "echo", " ", "hi", NL>>}

\* the user's init files, each with its content
NativeFiles ==
    { <<Home \o <<"/", ".", "bashrc">>, <<NL, "export", " ", "X=1", NL>>>>,
      <<Home \o <<"/", ".", "zshrc">>, <<" ", NL>>>>,
      <<Home \o <<"/", ".", "kshrc">>, Empty>>,
      <<<<".", "shinit">>, <<"y">>>>,
      <<Profile, <<"set", " ", "-", "o", " ", "vi">>>> }

FileSystemOf(files) ==
    [p \in {f[1] : f \in files} |-> (CHOOSE f \in files : f[1] = p)[2]]

\* answers of the operating system to MkdirTemp and WriteFile
ShortWrites == {0, 1}
OSOutcomes ==
    {[mkdir |-> 0, write |-> "ok", short |-> 0]}
    \cup [mkdir : 1..MaxDirs, write : {"ok", "open"}, short : {0}]
    \cup [mkdir : 1..MaxDirs, write : {"short"}, short : ShortWrites]

Idle == [fn |-> "none"]
NoCall == [called |-> FALSE]

----------------------------------------------------------------------------
(* The bootstrap as a state machine *)

Init ==
    /\ env \in Envs
    /\ sh = NilShell
    /\ fs \in {FileSystemOf(NativeFiles), FileSystemOf({})}
    /\ dirs = {}
    /\ last = NoCall
    /\ arg = Idle
    /\ ret = Idle

\* sh, err := Detect()
DetectCall ==
    /\ sh' = Detect(env).sh
    /\ last' = NoCall
    /\ UNCHANGED <<fs, dirs, env, arg, ret>>

\* the caller assigns the exported fields PreInitHook and PostInitHook
SetHooks ==
    /\ sh # NilShell
    /\ \E pre \in Hooks, post \in Hooks :
        sh' = [sh EXCEPT !.PreInitHook = pre, !.PostInitHook = post]
    /\ last' = NoCall
    /\ UNCHANGED <<fs, dirs, env, arg, ret>>

\* cmd := sh.ExecCommand()
ExecCommandCall ==
    /\ sh # NilShell
    /\ Cardinality(dirs) < MaxDirs
    /\ \E o \in OSOutcomes :
        /\ o.mkdir = 0 \/ TempName(o.mkdir) \notin dirs
        /\ \E r \in {ExecCommand(sh, [fs |-> fs, dirs |-> dirs], o, env.PATH)} :
            /\ sh' = r.w.s
            /\ fs' = r.w.fs
            /\ dirs' = r.w.dirs
            /\ last' = [called |-> TRUE, s0 |-> sh, s1 |-> r.w.s,
                        err |-> r.w.err, contents |-> r.w.contents,
                        tmp |-> r.w.tmp, cmd |-> r.cmd,
                        newDirs |-> r.w.dirs \ dirs,
                        newFiles |-> DOMAIN r.w.fs \ DOMAIN fs]
    /\ UNCHANGED <<env, arg, ret>>

Next == DetectCall \/ SetHooks \/ ExecCommandCall

Spec == Init /\ [][Next]_vars

----------------------------------------------------------------------------
(* exclude, Detect and buildInitFile applied to drawn arguments *)

\* the rest of the state while one function is applied
Quiet ==
    /\ env = Environ(Empty, Empty, Empty, Empty)
    /\ sh = NilShell
    /\ fs = FileSystemOf({})
    /\ dirs = {}
    /\ last = NoCall

Elems == {"a", "b", "c"}

InitExclude ==
    /\ Quiet
    /\ arg \in [fn : {"exclude"}, s : SeqsUpTo(Elems, MaxLen),
                elems : SeqsUpTo(Elems, MaxLen)]
    /\ ret = Idle

\* filtered := exclude(s, elems); s is only read
CallExclude ==
    /\ arg.fn = "exclude"
    /\ ret = Idle
    /\ ret' = [fn |-> "exclude", out |-> exclude(arg.s, arg.elems), s |-> arg.s]
    /\ UNCHANGED <<sh, fs, dirs, last, env, arg>>

NextExclude == CallExclude

SpecExclude == InitExclude /\ [][NextExclude]_vars

\* shell paths: a directory, leading hyphens, a name
Hyphens(k) == [i \in 1..k |-> "-"]

ShellNames ==
    { d \o Hyphens(k) \o b :
        d \in {Empty, <<"/", "bin", "/">>, <<"/", "usr", "/", "bin", "/">>},
        k \in 0..MaxHyphens,
        b \in {Empty, <<"bash">>, <<"zsh">>, <<"ksh">>, <<"dash">>, <<"ash">>,
               <<"sh">>, <<"fish">>, <<"bash", "-">>} }

InitDetect ==
    /\ Quiet
    /\ arg \in [fn : {"Detect"}, n : ShellNames, ENV : {Empty, Profile},
                HOME : {Empty, Home}]
    /\ ret = Idle

\* Detect() with SHELL = n, and with SHELL = "-" + n
CallDetect ==
    /\ arg.fn = "Detect"
    /\ ret = Idle
    /\ ret' = [fn |-> "Detect",
               plain |-> Detect(Environ(arg.n, arg.ENV, arg.HOME, Bin)),
               login |-> Detect(Environ(<<"-">> \o arg.n, arg.ENV, arg.HOME, Bin))]
    /\ UNCHANGED <<sh, fs, dirs, last, env, arg>>

NextDetect == CallDetect

SpecDetect == InitDetect /\ [][NextDetect]_vars

HookAtoms == {" ", NL, "x"}
NativeAtoms == {NL, "y"}
ShInit == <<".", "shinit">>

InitBuild ==
    /\ Quiet
    /\ arg \in [fn : {"buildInitFile"},
                pre : SeqsUpTo(HookAtoms, MaxHookLen),
                post : SeqsUpTo(HookAtoms, MaxHookLen),
                readable : BOOLEAN,
                native : SeqsUpTo(NativeAtoms, MaxNativeLen)]
    /\ arg.readable \/ arg.native = Empty
    /\ ret = Idle

\* b, err := s.buildInitFile() for a posix Shell with the drawn hooks, whose
\* init file holds arg.native if it is readable
CallBuildInitFile ==
    /\ arg.fn = "buildInitFile"
    /\ ret = Idle
    /\ LET s == [Detect(Environ(<<"/", "bin", "/", "sh">>, Empty, Home, Bin)).sh
                    EXCEPT !.PreInitHook = arg.pre, !.PostInitHook = arg.post]
           F == [fs |-> IF arg.readable
                        THEN FileSystemOf({<<ShInit, arg.native>>})
                        ELSE FileSystemOf({}),
                 dirs |-> {}]
       IN  ret' = [fn |-> "buildInitFile", res |-> buildInitFile(s, F)]
    /\ UNCHANGED <<sh, fs, dirs, last, env, arg>>

NextBuild == CallBuildInitFile

SpecBuild == InitBuild /\ [][NextBuild]_vars

----------------------------------------------------------------------------
(* Properties of ExecCommand, under Spec *)

Blank(hook) == TrimSpace(hook) = Empty
BothBlank(s) == Blank(s.PreInitHook) /\ Blank(s.PostInitHook)

\* C1: whenever both hooks of the shell are empty or whitespace-only,
\* ExecCommand returns exactly "exec " followed by the shell path.
C1_BlankHooksGivePlainExec ==
    (last.called /\ BothBlank(last.s0)) =>
        last.cmd = <<"exec ">> \o last.s0.path

\* C2: whenever a step of ExecCommand fails (reading the native init file,
\* creating the temporary directory, writing the file), the command returned
\* is exactly "exec " followed by the shell path and the call leaves
\* devboxInitFile as it was.
C2_FailureFallsBack ==
    (last.called /\ last.err # ErrNone) =>
        /\ last.cmd = <<"exec ">> \o last.s0.path
        /\ last.s1.devboxInitFile = last.s0.devboxInitFile

\* C2's example: SHELL=/bin/bash, pre-hook "echo hi", post-hook empty, native
\* init file missing.
C2_Witness ==
    /\ last.called
    /\ last.err = ErrRead
    /\ last.s0.name = shBash
    /\ last.s0.path = <<"/", "bin", "/", "bash">>
    /\ TrimSpace(last.s0.PreInitHook) = <<"echo", " ", "hi">>
    /\ last.s0.PostInitHook = Empty
    /\ last.cmd = <<"exec ", "/", "bin", "/", "bash">>

\* C3: devboxInitFile is non-empty only if non-empty composed content was
\* materialized, and a call whose hooks are both blank skips materialization:
\* it creates no directory and no file and leaves devboxInitFile as it was.
C3_NoContentSkipsMaterialization ==
    /\ (sh # NilShell /\ sh.devboxInitFile # Empty) =>
            (sh.devboxInitFile \in DOMAIN fs /\ fs[sh.devboxInitFile] # Empty)
    /\ (last.called /\ BothBlank(last.s0)) =>
            /\ last.newDirs = {}
            /\ last.newFiles = {}
            /\ last.s1.devboxInitFile = last.s0.devboxInitFile

\* C7: after a call whose materialization succeeded, the command is, by
\* family: bash, --rcfile with the materialized file; zsh, ZDOTDIR set to the
\* directory holding the file; ksh and posix, ENV set to the file; each with
\* ORIGINAL_PATH set to $PATH and running the shell path.  The unknown family
\* always gets the plain form.
C7_CommandByFamily ==
    /\ (last.called /\ last.err = ErrNone) =>
        LET s == last.s0
            file == last.s1.devboxInitFile
            original == <<"exec /usr/bin/env ORIGINAL_PATH=\"">> \o env.PATH
        IN  /\ file # Empty
            /\ file \in DOMAIN fs
            /\ s.name = shBash =>
                 last.cmd = original \o <<"\" ">> \o s.path
                            \o <<" --rcfile \"">> \o file \o <<"\"">>
            /\ s.name = shZsh =>
                 /\ last.cmd = original \o <<"\" ZDOTDIR=\"">> \o last.tmp
                               \o <<"\" ">> \o s.path
                 /\ last.tmp \in dirs
                 /\ last.tmp # file
            /\ s.name \in {shKsh, shPosix} =>
                 last.cmd = original \o <<"\" ENV=\"">> \o file
                            \o <<"\" ">> \o s.path \o <<" ">>
            /\ s.name \in {shBash, shZsh, shKsh, shPosix}
    /\ (last.called /\ last.s0.name = shUnknown) =>
        last.cmd = <<"exec ">> \o last.s0.path

C7_Witness ==
    /\ last.called
    /\ last.err = ErrNone
    /\ last.s0.name = shZsh
    /\ ~BothBlank(last.s0)
    /\ env.PATH = UsrBin

\* one step, as C8 describes an ExecCommand call
C8_Step ==
    last'.called =>
        /\ dirs \subseteq dirs'
        /\ \A p \in DOMAIN fs : p \in DOMAIN fs' /\ fs'[p] = fs[p]
        /\ last'.err = ErrNone =>
            LET d == last'.tmp
                f == d \o <<Sep>> \o Base(sh.initFile)
            IN  /\ d \notin dirs
                /\ dirs' = dirs \cup {d}
                /\ {p \in DOMAIN fs' : Dir(p) = d} = {f}
                /\ fs'[f] = last'.contents.b
                /\ last'.contents = buildInitFile(sh, [fs |-> fs, dirs |-> dirs]).out

\* C8: a successful materialization creates a directory that did not exist
\* before, writes in it exactly one file, named after the base name of the
\* native init file and holding the content buildInitFile returned; no call
\* removes or changes a directory or file that existed before it.
C8_FreshMaterialization == [][C8_Step]_vars

C8_Witness ==
    /\ last.called
    /\ last.err = ErrNone
    /\ last.contents.b # Empty
    /\ Cardinality(dirs) >= 2
    /\ \A d \in dirs : \E p \in DOMAIN fs : Dir(p) = d /\ fs[p] # Empty

\* C9: for a shell whose native init file path is empty, ExecCommand creates
\* no temporary directory and no file, leaves devboxInitFile empty and
\* returns the plain form, whatever the hooks.
C9_EmptyInitFileCreatesNothing ==
    (last.called /\ last.s0.initFile = Empty) =>
        /\ last.newDirs = {}
        /\ last.newFiles = {}
        /\ last.s1.devboxInitFile = Empty
        /\ last.cmd = <<"exec ">> \o last.s0.path

\* one step, as C10 describes an ExecCommand call
C10_Step ==
    last'.called =>
        /\ sh'.name = sh.name
        /\ sh'.path = sh.path
        /\ sh'.initFile = sh.initFile
        /\ sh'.PreInitHook = sh.PreInitHook
        /\ sh'.PostInitHook = sh.PostInitHook
        /\ sh'.devboxInitFile # sh.devboxInitFile =>
            /\ last'.err = ErrNone
            /\ Cardinality(dirs' \ dirs) = 1
            /\ sh'.devboxInitFile \in DOMAIN fs' \ DOMAIN fs
            /\ fs'[sh'.devboxInitFile] = last'.contents.b

\* C10: an ExecCommand call changes no field of the Shell but devboxInitFile,
\* and changes that one only when the directory was created and the file
\* written.
C10_OnlyDevboxInitFileChanges == [][C10_Step]_vars

C10_Witness ==
    /\ last.called
    /\ last.err = ErrWrite
    /\ last.newDirs # {}
    /\ last.s0.devboxInitFile # Empty
    /\ last.s1 = last.s0
    /\ sh = last.s0

----------------------------------------------------------------------------
(* Property of exclude, under SpecExclude *)

\* C4: exclude(s, elems) is the subsequence of s of the elements that do not
\* occur in elems: the survivors keep their order and their duplicates, no
\* element of elems remains, the length is |s| minus the number of positions
\* of s holding an element of elems, and s is left as it was.
C4_ExcludeIsSubsequence ==
    ret.fn = "exclude" =>
        LET s == arg.s
            E == Range(arg.elems)
            out == ret.out
            keep == {i \in 1..Len(s) : s[i] \notin E}
            nth(j) == CHOOSE i \in keep : Cardinality({k \in keep : k <= i}) = j
        IN  /\ Len(out) = Len(s) - Cardinality({i \in 1..Len(s) : s[i] \in E})
            /\ \A j \in 1..Len(out) : out[j] = s[nth(j)]
            /\ \A j \in 1..Len(out) : out[j] \notin E
            /\ ret.s = arg.s

C4_Witness ==
    /\ ret.fn = "exclude"
    /\ arg.s = <<"a", "b", "a">>
    /\ arg.elems = <<"b", "c">>
    /\ ret.out = <<"a", "a">>

----------------------------------------------------------------------------
(* Properties of Detect, under SpecDetect *)

\* the family of a base name, by the classification table
FamilyOf(b) ==
    CASE b = <<"bash">> -> shBash
      [] b = <<"zsh">> -> shZsh
      [] b = <<"ksh">> -> shKsh
      [] b \in {<<"dash">>, <<"ash">>, <<"sh">>} -> shPosix
      [] OTHER -> shUnknown

\* the classification and the error case of C5
DetectTable ==
    /\ ret.plain.err <=> arg.n = Empty
    /\ ~ret.login.err
    /\ ~ret.plain.err =>
        LET base == Base(arg.n)
            b == IF Head(base) = "-" THEN SubSeq(base, 2, Len(base)) ELSE base
        IN  /\ ret.plain.sh.name = FamilyOf(b)
            /\ ret.plain.sh.name = shUnknown => ret.plain.sh.initFile = Empty

SameDetection ==
    /\ ret.login.sh.name = ret.plain.sh.name
    /\ ret.login.sh.initFile = ret.plain.sh.initFile

\* C5 as stated: Detect classifies by the base name of SHELL less one leading
\* hyphen, fails only when SHELL is empty, and for every name n the detection
\* of "-" + n gives the family and native init file of the detection of n.
C5_HyphenNeverMatters ==
    ret.fn = "Detect" =>
        /\ DetectTable
        /\ arg.n # Empty => SameDetection

\* C5 amended: the same, with the detection of "-" + n agreeing with that of
\* n for every non-empty n that does not itself begin with a hyphen.
C5_OneHyphenStripped ==
    ret.fn = "Detect" =>
        /\ DetectTable
        /\ (arg.n # Empty /\ Head(arg.n) # "-") => SameDetection

C5_Witness ==
    /\ ret.fn = "Detect"
    /\ arg.n = <<"bash">>
    /\ arg.HOME = Home
    /\ ret.login.sh.name = shBash
    /\ ret.login.sh.initFile = Home \o <<"/", ".", "bashrc">>
    /\ ret.login.sh.path = <<"-", "bash">>

----------------------------------------------------------------------------
(* Property of buildInitFile, under SpecBuild *)

IsPrefix(p, s) == Len(p) <= Len(s) /\ SubSeq(s, 1, Len(p)) = p

RECURSIVE DropNewlines(_)
DropNewlines(s) ==
    IF s # Empty /\ Head(s) = NL THEN DropNewlines(Tail(s)) ELSE s

\* s is the pieces in order, each followed by one or more newlines, the last
\* by exactly one
RECURSIVE MadeOf(_, _)
MadeOf(s, pieces) ==
    IF pieces = Empty THEN s = Empty
    ELSE LET p == Head(pieces) IN
         /\ IsPrefix(p, s)
         /\ LET rest == SubSeq(s, Len(p) + 1, Len(s)) IN
            IF Len(pieces) = 1 THEN rest = <<NL>>
            ELSE /\ rest # Empty
                 /\ Head(rest) = NL
                 /\ MadeOf(DropNewlines(rest), Tail(pieces))

Occurrences(m, s) ==
    Cardinality({i \in 1..Len(s) : IsPrefix(m, SubSeq(s, i, Len(s)))})

\* C6: with a non-blank hook and a readable native init file, buildInitFile
\* returns, in this order and each on lines of its own: for a non-blank
\* pre-hook the line "# Begin Devbox Pre-init Hook", the trimmed pre-hook and
\* the line "# End Devbox Pre-init Hook"; the trimmed native content; for a
\* non-blank post-hook the line "# Begin Devbox Pre-init Hook", the trimmed
\* post-hook and the line "# End Devbox Post-init Hook".  A section is there
\* exactly when its hook is non-blank; the result starts with no white space
\* and ends with exactly one newline.
C6_ComposedInOrder ==
    (ret.fn = "buildInitFile" /\ arg.readable /\ ~(Blank(arg.pre) /\ Blank(arg.post))) =>
        LET pre == TrimSpace(arg.pre)
            post == TrimSpace(arg.post)
            native == TrimSpace(arg.native)
            pieces == (IF pre # Empty
                       THEN <<BeginPreMarker, pre, EndPreMarker>> ELSE Empty)
                      \o (IF native # Empty THEN <<native>> ELSE Empty)
                      \o (IF post # Empty
                          THEN <<BeginPreMarker, post, EndPostMarker>> ELSE Empty)
            b == ret.res.out.b
        IN  /\ ~ret.res.err
            /\ ~ret.res.out.nil
            /\ MadeOf(b, pieces)
            /\ ~IsSpace(b[1])
            /\ b[Len(b)] = NL
            /\ ~IsSpace(b[Len(b) - 1])
            /\ Occurrences(BeginPreMarker, b) =
                    (IF pre # Empty THEN 1 ELSE 0) + (IF post # Empty THEN 1 ELSE 0)
            /\ Occurrences(EndPreMarker, b) = (IF pre # Empty THEN 1 ELSE 0)
            /\ Occurrences(EndPostMarker, b) = (IF post # Empty THEN 1 ELSE 0)

\* a pre-hook, a blank post-hook and native content
C6_Witness ==
    /\ ret.fn = "buildInitFile"
    /\ arg.readable
    /\ arg.pre = <<NL, "x", " ">>
    /\ arg.post = <<" ">>
    /\ arg.native = <<"y", NL, "y">>
    /\ ret.res.out.b = BeginPreMarker \o <<NL, NL, "x", NL, NL>> \o EndPreMarker
                       \o <<NL, NL, "y", NL, "y", NL>>

=============================================================================
